---- MODULE Spec2Model ----
(***************************************************************************)
(* A model of the github-crawler acquisition engine:                       *)
(*   src/src/crawler.py        generate_star_ranges, crawl_star_range,     *)
(*                             run_crawler                                 *)
(*   src/src/github_client.py  GitHubClient.fetch_repositories and its     *)
(*                             helpers                                     *)
(*   src/src/repository.py     RepositoryStore.upsert_batch, get_count     *)
(* The program is single-threaded; pc is the position of its one thread.   *)
(* The remote search API is the environment: every answer it gives is a    *)
(* nondeterministic choice.                                                *)
(***************************************************************************)
EXTENDS Integers, Sequences, FiniteSets, TLC

(***************************************************************************)
(* Configuration (src/src/config.py, class Config).  The settings are read *)
(* from the environment; the values examined are small ones.               *)
(***************************************************************************)
\* REPOS_TARGET: the small target number of unique rows examined.
TargetSmall == 2
\* MAX_RETRIES: the small setting examined; the late scenario runs with 0.
RetriesSmall == 2
\* RATE_LIMIT_BUFFER (the default).
rate_limit_buffer == 50
\* BATCH_SIZE: the settings examined: a small one, one between one and two
\* full pages, and the default (config.py:257).
BatchSmall == 2
BatchMid == 150
DefaultBatch == 1000

(***************************************************************************)
(* Literals of the program.                                                *)
(***************************************************************************)
\* crawler.py:88  range_fetched % 500
CheckEvery == 500
\* github_client.py:22  first: 100
PageMax == 100
\* crawler.py:49  the upper bound of the last range
MaxStars == 1000000
\* crawler.py:82  cursor = None
None == 0
\* crawler.py:19  the remote serves at most 1,000 results per query
ResultLimit == 1000

(***************************************************************************)
(* Bounds of the environment.                                              *)
(***************************************************************************)
\* ids the sparse remote serves are 1..MaxId
MaxId == 2
\* end cursors the remote hands out are 1..MaxCursor
MaxCursor == 1
\* number of fetch calls a sparse remote answers freely before it reports
\* nothing left
MaxLiveCalls == 2
\* the same for a dense remote (one that serves full pages)
MaxDenseCalls == 6

VARIABLES
  pc,            \* position of the thread
  batch_size,    \* config.batch_size
  star_ranges,   \* run_crawler: star_ranges
  sliceIdx,      \* run_crawler: position of the for loop in star_ranges
  initial_count, \* run_crawler: initial_count
  final_count,   \* run_crawler: final_count, the value returned
  db,            \* the repositories table: github_id -> star_count
  search_query,  \* crawl_star_range: <<min_stars, max_stars>> of the predicate
  cursor,        \* crawl_star_range: cursor
  range_fetched, \* crawl_star_range: range_fetched
  batch_buffer,  \* crawl_star_range: batch_buffer
  result,        \* crawl_star_range: result (the SearchResult)
  retries,       \* fetch_repositories: retries
  error,         \* the exception that ended the run, "none" if none
  corpus,        \* environment: "sparse", "dense", "scripted" or "late"
                 \* remote
  liveCalls,     \* environment: fetch calls still answered freely
  live,          \* environment: the current call is answered freely
  denseServed,   \* environment: pages served so far by a dense or scripted
                 \* remote
  \* history variables
  fetchCalls,    \* number of fetch_repositories calls of the run
  upsertCalls,   \* number of upsert_batch calls of the run
  requests,      \* requests sent in the current fetch_repositories call
  sleeps,        \* backoff sleeps (seconds) of the current call
  lastAnswer,    \* the remote's answer to the last request of the call
  allTransient,  \* every failure of the current call was 5xx or network
  fetched,       \* records fetched in the current slice, in order
  batches,       \* batches handed to upsert_batch in the current slice
  quotaDebt,     \* reset_at of a low-quota snapshot not yet waited for
  sinceCheck,    \* records of the slice fetched since the count was last
                 \* compared with the target (or since the slice began)
  targetLogged   \* the run has printed "Target reached"

vars == <<pc, batch_size, star_ranges, sliceIdx, initial_count, final_count,
          db, search_query, cursor, range_fetched, batch_buffer, result,
          retries, error, corpus, liveCalls, live, denseServed, fetchCalls,
          upsertCalls, requests, sleeps, lastAnswer, allTransient, fetched,
          batches, quotaDebt, sinceCheck, targetLogged>>

\* config.max_retries: 0 in the late scenario, the small one elsewhere
max_retries == IF corpus = "late" THEN 0 ELSE RetriesSmall

\* config.repos_target: 5 in the scripted scenario, the small one elsewhere
repos_target == IF corpus = "scripted" THEN 5 ELSE TargetSmall

(***************************************************************************)
(* crawler.py: generate_star_ranges                                        *)
(***************************************************************************)
\* [(i, i + width) for i in range(lo, hi, step)]
RangeLoop(lo, hi, step, width) ==
  [k \in 1..((hi - lo + step - 1) \div step) |->
     <<lo + (k - 1) * step, lo + (k - 1) * step + width>>]

\* the plan with the second loop's buckets one too wide, (i, i + 5)
generate_star_ranges_overlap ==
  RangeLoop(0, 11, 1, 0)
    \o RangeLoop(11, 101, 5, 5)
    \o RangeLoop(101, 1001, 50, 49)
    \o RangeLoop(1001, 10001, 200, 199)
    \o RangeLoop(10001, 100001, 2000, 1999)
    \o << <<100001, 500000>> >>
    \o << <<500001, MaxStars>> >>

\* the plan with the first loop's buckets written (i, i + 1)
generate_star_ranges_pairs ==
  RangeLoop(0, 11, 1, 1)
    \o RangeLoop(11, 101, 5, 4)
    \o RangeLoop(101, 1001, 50, 49)
    \o RangeLoop(1001, 10001, 200, 199)
    \o RangeLoop(10001, 100001, 2000, 1999)
    \o << <<100001, 500000>> >>
    \o << <<500001, MaxStars>> >>

generate_star_ranges ==
  RangeLoop(0, 11, 1, 0)
    \o RangeLoop(11, 101, 5, 4)
    \o RangeLoop(101, 1001, 50, 49)
    \o RangeLoop(1001, 10001, 200, 199)
    \o RangeLoop(10001, 100001, 2000, 1999)
    \o << <<100001, 500000>> >>
    \o << <<500001, MaxStars>> >>

(***************************************************************************)
(* models.py: RepositoryDTO.  Only the fields the engine's control flow    *)
(* and the sink's key depend on are kept: github_id and star_count.        *)
(***************************************************************************)
RepositoryDTO(id, stars) == [github_id |-> id, star_count |-> stars]

(***************************************************************************)
(* repository.py: RepositoryStore                                          *)
(***************************************************************************)
\* get_count: SELECT COUNT(*) FROM repositories (github_id is the primary key)
get_count(store) == Cardinality(DOMAIN store)

BatchIds(batch) == {batch[i].github_id : i \in DOMAIN batch}

\* INSERT ... VALUES (all rows of the batch) ON CONFLICT (github_id) DO UPDATE
\* is one statement: PostgreSQL rejects it when two of its rows carry the
\* same github_id ("ON CONFLICT DO UPDATE command cannot affect row a second
\* time"), and the statement then changes nothing.
AffectsRowTwice(batch) ==
  Cardinality(BatchIds(batch)) # Len(batch)

\* the table rewritten from the batch alone
UpsertedReplacing(store, batch) ==
  [id \in BatchIds(batch) |->
     (CHOOSE r \in {batch[i] : i \in DOMAIN batch} : r.github_id = id).star_count]

\* the statement written with ON CONFLICT DO NOTHING: a stored row is kept
UpsertedKeepingOld(store, batch) ==
  [id \in DOMAIN store \cup BatchIds(batch) |->
     IF id \in DOMAIN store
       THEN store[id]
       ELSE (CHOOSE r \in {batch[i] : i \in DOMAIN batch} : r.github_id = id).star_count]

\* The table after the statement: the rows of the batch inserted, or, on a
\* conflict, star_count overwritten by the excluded row's.
Upserted(store, batch) ==
  [id \in DOMAIN store \cup BatchIds(batch) |->
     IF id \in BatchIds(batch)
       THEN (CHOOSE r \in {batch[i] : i \in DOMAIN batch} : r.github_id = id).star_count
       ELSE store[id]]

(***************************************************************************)
(* The remote search API (the environment).                                *)
(***************************************************************************)
Answers == {"ok", "401", "errors", "5xx", "network", "4xx"}

\* ids a..b, each with the given star count
IdRun(a, b, stars) == [i \in 1..(b - a + 1) |-> RepositoryDTO(a + i - 1, stars)]

SparsePages(stars) ==
  {<<>>} \cup {IdRun(a, b, stars) : a \in 1..MaxId, b \in 1..MaxId}

\* the k-th full page: PageMax ids no other page carries
DensePage(k, stars) ==
  [i \in 1..PageMax |-> RepositoryDTO(MaxId + k * PageMax + i, stars)]

\* a page one record short (github_client.py:154 drops a null node); the
\* first page of a dense remote may be one
ShortPages(served, stars) ==
  IF served = 0
    THEN {SubSeq(DensePage(served, stars), 1, PageMax - 1)}
    ELSE {}

PageInfos ==
  {[has_next_page |-> FALSE, end_cursor |-> None]}
    \cup {[has_next_page |-> TRUE, end_cursor |-> c] : c \in 1..MaxCursor}

\* quota snapshots: just below the buffer and at it (a dense remote is a
\* healthy one); all calls of a run fall into one quota window
RateLimits(kind) ==
  {[remaining |-> r, reset_at |-> "reset1"] :
     r \in (IF kind = "sparse" THEN {rate_limit_buffer - 1} ELSE {})
              \cup {rate_limit_buffer}}

\* the scripted remote: the pages of one slice, {idA, idB} then {idC}
ScriptedPages(stars) == <<IdRun(1, 2, stars), IdRun(3, 3, stars)>>

Pages(kind, served, stars) ==
  CASE kind \in {"sparse", "late"} -> SparsePages(stars)
    [] kind = "dense" -> {<<>>, DensePage(served, stars)}
                           \cup ShortPages(served, stars)
    [] OTHER -> IF served < Len(ScriptedPages(stars))
                  THEN {ScriptedPages(stars)[served + 1]}
                  ELSE {<<>>}

\* the page infos a page can carry: every page of the script but the last
\* carries a next cursor
PageInfosOf(kind, served, stars) ==
  IF kind = "scripted" /\ served + 1 < Len(ScriptedPages(stars))
    THEN {pi \in PageInfos : pi.has_next_page}
    ELSE PageInfos

Responses(kind, served, stars) ==
  {[repositories |-> p, page_info |-> pi, rate_limit |-> rl] :
     p \in Pages(kind, served, stars), pi \in PageInfosOf(kind, served, stars),
     rl \in RateLimits(kind)}

\* what a remote with nothing left answers
QuietResponse ==
  [repositories |-> <<>>,
   page_info |-> [has_next_page |-> FALSE, end_cursor |-> None],
   rate_limit |-> [remaining |-> rate_limit_buffer, reset_at |-> "reset1"]]

\* the value of result while no page is held
NoResult == QuietResponse

\* the answers a request can get: a remote with nothing left, and a dense
\* one, answer every request
AnswersNow(kind, free) ==
  IF free /\ kind \in {"sparse", "late"} THEN Answers ELSE {"ok"}

\* the batch sizes examined with each remote
BatchSizes(kind) ==
  IF kind = "dense" THEN {BatchMid, DefaultBatch} ELSE {BatchSmall, DefaultBatch}

\* the number of fetch calls each remote answers freely
LiveCalls(kind) ==
  CASE kind \in {"sparse", "late"} -> MaxLiveCalls
    [] kind = "dense" -> MaxDenseCalls
    [] OTHER -> Len(ScriptedPages(0))

\* the slices a remote has records in: a late remote only in the last one of
\* the plan, the others in any
Stocked(kind, idx) == kind # "late" \/ idx = Len(generate_star_ranges)

\* the table a run may find at its start: the first k ids already stored
InitialStores == {[id \in 1..k |-> 0] : k \in 0..MaxId}

(***************************************************************************)
(* Conditions of the code, one operator each.                              *)
(***************************************************************************)
\* crawler.py:54-58 get_db_count
get_db_count == get_count(db)

\* the comparison left out
TargetReachedNever(db_count) == FALSE

\* the comparison written as db_count > target
TargetReachedStrict(db_count) == db_count > repos_target

\* the comparison off by one the other way
TargetReachedEarly(db_count) == db_count + 1 >= repos_target

\* crawler.py:90 and :171  db_count >= config.repos_target
TargetReached(db_count) == db_count >= repos_target

\* the periodic check left out
StopCheckNever(n) == FALSE

\* the test written as an empty page that also reports no next page
PageEmptyAndLast(res) ==
  res.repositories = <<>> /\ ~res.page_info.has_next_page

\* crawler.py:97  not result.repositories
PageEmpty(res) == res.repositories = <<>>

\* crawler.py:88  range_fetched > 0 and range_fetched % 500 == 0
StopCheckDue(n) == n > 0 /\ n % CheckEvery = 0

\* the comparison written as len(batch_buffer) > config.batch_size
BufferOverfull(buffer) == Len(buffer) > batch_size

\* crawler.py:112  len(batch_buffer) >= config.batch_size
BufferFull(buffer) == Len(buffer) >= batch_size

\* the buffer left as it is after a flush
KeptBuffer(buffer) == buffer

\* crawler.py:117  batch_buffer = []
ClearedBuffer(buffer) == <<>>

\* the cursor never advanced
KeptCursor(res) == None

\* crawler.py:127  cursor = result.page_info.end_cursor
NextCursor(res) == res.page_info.end_cursor

\* the remaining buffer never flushed
NoRemainder(buffer) == FALSE

\* crawler.py:130  if batch_buffer:
HasRemainder(buffer) == buffer # <<>>

\* github_client.py:186-188 should_wait_for_rate_limit
should_wait_for_rate_limit(rate_limit) == rate_limit.remaining < rate_limit_buffer

\* the handler catching the query error too
RetryableWithErrors(answer) == answer \in {"5xx", "network", "4xx", "errors"}

\* the handler catching the authorization failure too
RetryableWith401(answer) == answer \in {"5xx", "network", "4xx", "401"}

\* github_client.py:107  except requests.exceptions.RequestException: the
\* failures of _make_request that are RequestExceptions: the one raised for a
\* 5xx status (:133-134), those requests.post raises for a network error
\* (:123-128), and the HTTPError raise_for_status raises for any other 4xx
\* status (:136).  The RuntimeErrors of :131 and :143 are not.
Retryable(answer) == answer \in {"5xx", "network", "4xx"}

\* the comparison written as retries >= max_retries
RetriesExhaustedEarly(n) == n >= max_retries

\* github_client.py:109  retries > self._config.max_retries
RetriesExhausted(n) == n > max_retries

\* the exponent taken before the increment of retries
BackoffBeforeIncrement(n) == 2 ^ (n - 1)

\* github_client.py:112  backoff = 2 ** retries
Backoff(n) == 2 ^ n

\* the exception caught around the harvest, the slice taken as finished
SkipsSlice == "range_done"

\* crawler.py:95, :115, :133, :175-181: no statement of crawl_star_range or
\* run_crawler handles an exception of the fetch or of the upsert; it leaves
\* run_crawler, and main (:204-212) reports it and exits
Propagates == "error"

\* github_client.py:131 and :143: the message of the RuntimeError
FatalMessage(answer) == IF answer = "401" THEN "Unauthorized" ELSE "GraphQL error"

(***************************************************************************)
(* The state after construction: the configuration is loaded, the table    *)
(* holds what earlier runs left, nothing has been fetched.                 *)
(***************************************************************************)
Init ==
  /\ pc = "plan"
  /\ star_ranges = <<>>
  /\ sliceIdx = 1
  /\ initial_count = 0
  /\ final_count = 0
  /\ db \in InitialStores
  /\ search_query = <<0, 0>>
  /\ cursor = None
  /\ range_fetched = 0
  /\ batch_buffer = <<>>
  /\ result = NoResult
  /\ retries = 0
  /\ error = "none"
  /\ corpus \in {"sparse", "dense", "scripted", "late"}
  /\ batch_size \in BatchSizes(corpus)
  /\ liveCalls = LiveCalls(corpus)
  /\ live = FALSE
  /\ denseServed = 0
  /\ fetchCalls = 0
  /\ upsertCalls = 0
  /\ requests = 0
  /\ sleeps = <<>>
  /\ lastAnswer = "none"
  /\ allTransient = TRUE
  /\ fetched = <<>>
  /\ batches = <<>>
  /\ quotaDebt = "none"
  /\ sinceCheck = 0
  /\ targetLogged = FALSE

configVars == <<batch_size, corpus>>
runVars == <<star_ranges, sliceIdx, initial_count, final_count, targetLogged>>
sliceVars == <<search_query, cursor, range_fetched, batch_buffer>>
callVars == <<retries, requests, sleeps, lastAnswer, allTransient>>
remoteVars == <<liveCalls, live, denseServed>>
sinkVars == <<db, upsertCalls>>
sliceLog == <<fetched, batches, sinceCheck>>

(***************************************************************************)
(* run_crawler, crawler.py:139-199                                         *)
(***************************************************************************)
\* :157-161  star_ranges = generate_star_ranges(); initial_count = ...
Plan ==
  /\ pc = "plan"
  /\ star_ranges' = generate_star_ranges
  /\ initial_count' = get_db_count
  /\ sliceIdx' = 1
  /\ pc' = "for_head"
  /\ UNCHANGED <<configVars, final_count, targetLogged, sliceVars, result,
                 callVars, error, remoteVars, sinkVars, fetchCalls, sliceLog,
                 quotaDebt>>

\* :168  the for loop has consumed star_ranges
SlicesExhausted ==
  /\ pc = "for_head"
  /\ sliceIdx > Len(star_ranges)
  /\ pc' = "final"
  /\ UNCHANGED <<configVars, runVars, sliceVars, result, callVars, error,
                 remoteVars, sinkVars, fetchCalls, sliceLog, quotaDebt>>

\* :170-173  db_count >= target: print "Target reached"; break
TargetBreak ==
  /\ pc = "for_head"
  /\ sliceIdx <= Len(star_ranges)
  /\ TargetReached(get_db_count)
  /\ targetLogged' = TRUE
  /\ pc' = "final"
  /\ UNCHANGED <<configVars, star_ranges, sliceIdx, initial_count, final_count,
                 sliceVars, result, callVars, error, remoteVars, sinkVars,
                 fetchCalls, sliceLog, quotaDebt>>

\* :175-184 and :81-84  call crawl_star_range for the slice
EnterSlice ==
  /\ pc = "for_head"
  /\ sliceIdx <= Len(star_ranges)
  /\ ~TargetReached(get_db_count)
  /\ search_query' = star_ranges[sliceIdx]
  /\ cursor' = None
  /\ range_fetched' = 0
  /\ batch_buffer' = <<>>
  /\ fetched' = <<>>
  /\ batches' = <<>>
  /\ sinceCheck' = 0
  /\ pc' = "while_head"
  /\ UNCHANGED <<configVars, runVars, result, callVars, error, remoteVars,
                 sinkVars, fetchCalls, quotaDebt>>

\* :186-190  crawl_star_range has returned; the loop takes the next slice
RangeDone ==
  /\ pc = "range_done"
  /\ sliceIdx' = sliceIdx + 1
  /\ fetched' = <<>>
  /\ batches' = <<>>
  /\ sinceCheck' = 0
  /\ pc' = "for_head"
  /\ UNCHANGED <<configVars, star_ranges, initial_count, final_count,
                 targetLogged, sliceVars, result, callVars, error, remoteVars,
                 sinkVars, fetchCalls, quotaDebt>>

\* :193-199  final_count = get_db_count(); return final_count
Final ==
  /\ pc = "final"
  /\ final_count' = get_db_count
  /\ pc' = "done"
  /\ UNCHANGED <<configVars, star_ranges, sliceIdx, initial_count,
                 targetLogged, sliceVars, result, callVars, error, remoteVars,
                 sinkVars, fetchCalls, sliceLog, quotaDebt>>

(***************************************************************************)
(* crawl_star_range, crawler.py:61-136                                     *)
(***************************************************************************)
\* :88-92  the periodic check finds the target met: print "Target
\* reached"; break
SliceStop ==
  /\ pc = "while_head"
  /\ StopCheckDue(range_fetched)
  /\ TargetReached(get_db_count)
  /\ targetLogged' = TRUE
  /\ sinceCheck' = 0
  /\ pc' = "flush_rest"
  /\ UNCHANGED <<configVars, star_ranges, sliceIdx, initial_count, final_count,
                 sliceVars, result, callVars, error, remoteVars, sinkVars,
                 fetchCalls, fetched, batches, quotaDebt>>

\* :95  result = github_client.fetch_repositories(search_query, cursor),
\* entered: github_client.py:100  retries = 0
FetchCall ==
  /\ pc = "while_head"
  /\ ~(StopCheckDue(range_fetched) /\ TargetReached(get_db_count))
  /\ retries' = 0
  /\ requests' = 0
  /\ sleeps' = <<>>
  /\ lastAnswer' = "none"
  /\ allTransient' = TRUE
  /\ fetchCalls' = fetchCalls + 1
  /\ live' = (liveCalls > 0 /\ Stocked(corpus, sliceIdx))
  /\ liveCalls' = IF live' THEN liveCalls - 1 ELSE liveCalls
  /\ sinceCheck' = IF StopCheckDue(range_fetched) THEN 0 ELSE sinceCheck
  /\ pc' = "request"
  /\ UNCHANGED <<configVars, runVars, sliceVars, result, error, denseServed,
                 sinkVars, fetched, batches, quotaDebt>>

(***************************************************************************)
(* GitHubClient.fetch_repositories, github_client.py:86-114, with          *)
(* _make_request, :116-145                                                 *)
(***************************************************************************)
\* :104  _make_request returns the response's data
RequestOk ==
  /\ pc = "request"
  /\ requests' = requests + 1
  /\ lastAnswer' = "ok"
  /\ pc' = "parse"
  /\ UNCHANGED <<configVars, runVars, sliceVars, result, retries, sleeps,
                 allTransient, error, remoteVars, sinkVars, fetchCalls,
                 sliceLog, quotaDebt>>

\* :107-114  a RequestException with retries left: go on to sleep
RequestFailsRetry ==
  /\ pc = "request"
  /\ \E answer \in AnswersNow(corpus, live) :
       /\ answer # "ok"
       /\ Retryable(answer)
       /\ ~RetriesExhausted(retries + 1)
       /\ lastAnswer' = answer
       /\ allTransient' = (allTransient /\ answer \in {"5xx", "network"})
  /\ retries' = retries + 1
  /\ requests' = requests + 1
  /\ pc' = "backoff"
  /\ UNCHANGED <<configVars, runVars, sliceVars, result, sleeps, error,
                 remoteVars, sinkVars, fetchCalls, sliceLog, quotaDebt>>

\* :107-110  a RequestException with no retry left: RuntimeError
RequestFailsExhausted ==
  /\ pc = "request"
  /\ \E answer \in AnswersNow(corpus, live) :
       /\ answer # "ok"
       /\ Retryable(answer)
       /\ RetriesExhausted(retries + 1)
       /\ lastAnswer' = answer
       /\ allTransient' = (allTransient /\ answer \in {"5xx", "network"})
  /\ retries' = retries + 1
  /\ requests' = requests + 1
  /\ error' = "Max retries exceeded"
  /\ pc' = Propagates
  /\ UNCHANGED <<configVars, runVars, sliceVars, result, sleeps, remoteVars,
                 sinkVars, fetchCalls, sliceLog, quotaDebt>>

\* :130-131 and :141-143  a RuntimeError of _make_request: no handler
RequestFatal ==
  /\ pc = "request"
  /\ \E answer \in AnswersNow(corpus, live) :
       /\ answer # "ok"
       /\ ~Retryable(answer)
       /\ lastAnswer' = answer
       /\ error' = FatalMessage(answer)
  /\ requests' = requests + 1
  /\ pc' = Propagates
  /\ UNCHANGED <<configVars, runVars, sliceVars, result, retries, sleeps,
                 allTransient, remoteVars, sinkVars, fetchCalls, sliceLog,
                 quotaDebt>>

\* :112-114  time.sleep(backoff); the loop sends the next request
BackoffSleep ==
  /\ pc = "backoff"
  /\ sleeps' = Append(sleeps, Backoff(retries))
  /\ pc' = "request"
  /\ UNCHANGED <<configVars, runVars, sliceVars, result, retries, requests,
                 lastAnswer, allTransient, error, remoteVars, sinkVars,
                 fetchCalls, sliceLog, quotaDebt>>

\* :105 and :147-172  return self._parse_response(response): the call
\* returns the page the remote sent.  A snapshot below the buffer is owed a
\* wait for its reset_at.
Parse ==
  /\ pc = "parse"
  /\ \E r \in (IF live
                 THEN Responses(corpus, denseServed, search_query[1])
                 ELSE {QuietResponse}) :
       /\ result' = r
       /\ denseServed' = IF corpus # "sparse" /\ r.repositories # <<>>
                           THEN denseServed + 1 ELSE denseServed
       /\ quotaDebt' = IF r.rate_limit.remaining < rate_limit_buffer
                         THEN r.rate_limit.reset_at ELSE quotaDebt
  /\ retries' = 0
  /\ requests' = 0
  /\ sleeps' = <<>>
  /\ lastAnswer' = "none"
  /\ allTransient' = TRUE
  /\ pc' = "page"
  /\ UNCHANGED <<configVars, runVars, sliceVars, error, liveCalls, live,
                 sinkVars, fetchCalls, sliceLog>>

(***************************************************************************)
(* crawl_star_range, the rest of the loop body and the exit                *)
(***************************************************************************)
\* :97-98  if not result.repositories: break
EmptyPage ==
  /\ pc = "page"
  /\ PageEmpty(result)
  /\ pc' = "flush_rest"
  /\ UNCHANGED <<configVars, runVars, sliceVars, result, callVars, error,
                 remoteVars, sinkVars, fetchCalls, sliceLog, quotaDebt>>

\* :101-102  batch_buffer.extend(...); range_fetched += len(...)
AcceptPage ==
  /\ pc = "page"
  /\ ~PageEmpty(result)
  /\ batch_buffer' = batch_buffer \o result.repositories
  /\ range_fetched' = range_fetched + Len(result.repositories)
  /\ fetched' = fetched \o result.repositories
  /\ sinceCheck' = sinceCheck + Len(result.repositories)
  /\ pc' = "flush_check"
  /\ UNCHANGED <<configVars, runVars, search_query, cursor, result, callVars,
                 error, remoteVars, sinkVars, fetchCalls, batches, quotaDebt>>

\* :112-117  the buffer is full: upsert_batch, then batch_buffer = []
ThresholdFlush ==
  /\ pc = "flush_check"
  /\ BufferFull(batch_buffer)
  /\ ~AffectsRowTwice(batch_buffer)
  /\ db' = Upserted(db, batch_buffer)
  /\ upsertCalls' = upsertCalls + 1
  /\ batches' = Append(batches, batch_buffer)
  /\ batch_buffer' = ClearedBuffer(batch_buffer)
  /\ pc' = "rate_check"
  /\ UNCHANGED <<configVars, runVars, search_query, cursor, range_fetched,
                 result, callVars, error, remoteVars, fetchCalls, fetched,
                 quotaDebt, sinceCheck>>

\* :115  upsert_batch raises: the statement is rejected, nothing handles it
ThresholdFlushRejected ==
  /\ pc = "flush_check"
  /\ BufferFull(batch_buffer)
  /\ AffectsRowTwice(batch_buffer)
  /\ upsertCalls' = upsertCalls + 1
  /\ batches' = Append(batches, batch_buffer)
  /\ error' = "CardinalityViolation"
  /\ pc' = Propagates
  /\ UNCHANGED <<configVars, runVars, sliceVars, result, callVars, remoteVars,
                 db, fetchCalls, fetched, quotaDebt, sinceCheck>>

\* :112  the buffer is not full
NoThresholdFlush ==
  /\ pc = "flush_check"
  /\ ~BufferFull(batch_buffer)
  /\ pc' = "rate_check"
  /\ UNCHANGED <<configVars, runVars, sliceVars, result, callVars, error,
                 remoteVars, sinkVars, fetchCalls, sliceLog, quotaDebt>>

\* :120-121  should_wait_for_rate_limit(result.rate_limit) holds
QuotaLow ==
  /\ pc = "rate_check"
  /\ should_wait_for_rate_limit(result.rate_limit)
  /\ pc' = "waiting"
  /\ UNCHANGED <<configVars, runVars, sliceVars, result, callVars, error,
                 remoteVars, sinkVars, fetchCalls, sliceLog, quotaDebt>>

\* :120  it does not
QuotaFine ==
  /\ pc = "rate_check"
  /\ ~should_wait_for_rate_limit(result.rate_limit)
  /\ pc' = "paginate"
  /\ UNCHANGED <<configVars, runVars, sliceVars, result, callVars, error,
                 remoteVars, sinkVars, fetchCalls, sliceLog, quotaDebt>>

\* github_client.py:174-184 wait_for_rate_limit_reset(reset_at): the sleep
\* until reset_at is over
WaitForReset ==
  /\ pc = "waiting"
  /\ quotaDebt' = IF quotaDebt = result.rate_limit.reset_at THEN "none" ELSE quotaDebt
  /\ pc' = "paginate"
  /\ UNCHANGED <<configVars, runVars, sliceVars, result, callVars, error,
                 remoteVars, sinkVars, fetchCalls, sliceLog>>

\* :124-125  if not result.page_info.has_next_page: break
LastPage ==
  /\ pc = "paginate"
  /\ ~result.page_info.has_next_page
  /\ result' = NoResult
  /\ pc' = "flush_rest"
  /\ UNCHANGED <<configVars, runVars, sliceVars, callVars, error, remoteVars,
                 sinkVars, fetchCalls, sliceLog, quotaDebt>>

\* :127  cursor = result.page_info.end_cursor
NextPage ==
  /\ pc = "paginate"
  /\ result.page_info.has_next_page
  /\ cursor' = NextCursor(result)
  /\ result' = NoResult
  /\ pc' = "while_head"
  /\ UNCHANGED <<configVars, runVars, search_query, range_fetched, batch_buffer,
                 callVars, error, remoteVars, sinkVars, fetchCalls, sliceLog,
                 quotaDebt>>

\* :130-136  the remaining buffer is upserted; return range_fetched
FinalFlush ==
  /\ pc = "flush_rest"
  /\ HasRemainder(batch_buffer)
  /\ ~AffectsRowTwice(batch_buffer)
  /\ db' = Upserted(db, batch_buffer)
  /\ upsertCalls' = upsertCalls + 1
  /\ batches' = Append(batches, batch_buffer)
  /\ pc' = "range_done"
  /\ UNCHANGED <<configVars, runVars, sliceVars, result, callVars, error,
                 remoteVars, fetchCalls, fetched, quotaDebt, sinceCheck>>

\* :133  upsert_batch raises
FinalFlushRejected ==
  /\ pc = "flush_rest"
  /\ HasRemainder(batch_buffer)
  /\ AffectsRowTwice(batch_buffer)
  /\ upsertCalls' = upsertCalls + 1
  /\ batches' = Append(batches, batch_buffer)
  /\ error' = "CardinalityViolation"
  /\ pc' = Propagates
  /\ UNCHANGED <<configVars, runVars, sliceVars, result, callVars, remoteVars,
                 db, fetchCalls, fetched, quotaDebt, sinceCheck>>

\* :130, :136  nothing is left in the buffer; return range_fetched
NoFinalFlush ==
  /\ pc = "flush_rest"
  /\ ~HasRemainder(batch_buffer)
  /\ pc' = "range_done"
  /\ UNCHANGED <<configVars, runVars, sliceVars, result, callVars, error,
                 remoteVars, sinkVars, fetchCalls, sliceLog, quotaDebt>>

Next ==
  \/ Plan
  \/ SlicesExhausted
  \/ TargetBreak
  \/ EnterSlice
  \/ RangeDone
  \/ Final
  \/ SliceStop
  \/ FetchCall
  \/ RequestOk
  \/ RequestFailsRetry
  \/ RequestFailsExhausted
  \/ RequestFatal
  \/ BackoffSleep
  \/ Parse
  \/ EmptyPage
  \/ AcceptPage
  \/ ThresholdFlush
  \/ ThresholdFlushRejected
  \/ NoThresholdFlush
  \/ QuotaLow
  \/ QuotaFine
  \/ WaitForReset
  \/ LastPage
  \/ NextPage
  \/ FinalFlush
  \/ FinalFlushRejected
  \/ NoFinalFlush

Spec == Init /\ [][Next]_vars

\* The thread is never suspended for ever: a step that can be taken is taken.
FairSpec == Spec /\ WF_vars(Next)

(***************************************************************************)
(* Properties                                                              *)
(***************************************************************************)
RECURSIVE Flat(_)
\* the records of a sequence of batches, in the order they were handed over
Flat(bs) == IF bs = <<>> THEN <<>> ELSE Head(bs) \o Flat(Tail(bs))

\* how often record r occurs in seq
Occurrences(seq, r) == Cardinality({i \in DOMAIN seq : seq[i] = r})

\* every fetched record of the slice has been handed to upsert_batch
NothingDropped ==
  LET handed == Flat(batches)
  IN  \/ handed = fetched
      \/ \A r \in {fetched[i] : i \in DOMAIN fetched} :
           Occurrences(fetched, r) <= Occurrences(handed, r)

FetchErrors == {"Unauthorized", "GraphQL error", "Max retries exceeded"}

\* C1: the slices generate_star_ranges returned, as the loop of run_crawler
\* holds them, start at 0, are each non-empty (lower <= upper), follow each
\* other without gap or overlap (upper + 1 = next lower), and end at
\* 1,000,000.
C1_Coverage ==
  pc = "for_head" =>
    /\ Len(star_ranges) > 0
    /\ star_ranges[1][1] = 0
    /\ \A i \in 1..Len(star_ranges) : star_ranges[i][1] <= star_ranges[i][2]
    /\ \A i \in 1..(Len(star_ranges) - 1) :
         star_ranges[i][2] + 1 = star_ranges[i + 1][1]
    /\ star_ranges[Len(star_ranges)][2] = 1000000

C1_Planned == pc = "for_head" /\ Len(star_ranges) = 139 /\ sliceIdx = 139

\* a step from the loop head with count >= target goes to the final count
BreaksAtTarget ==
  (pc = "for_head" /\ sliceIdx <= Len(star_ranges)
     /\ Cardinality(DOMAIN db) >= repos_target) => pc' = "final"

\* a step taken after the loop was left issues no fetch and no upsert
QuietOnceLeft ==
  pc \in {"final", "done"} =>
    /\ pc' \in {"final", "done"}
    /\ fetchCalls' = fetchCalls
    /\ requests' = requests
    /\ upsertCalls' = upsertCalls

\* C2: when the count read before a slice is >= target the run leaves the
\* loop at once, and from then on no fetch call, request or upsert happens;
\* a run that starts with count >= target never fetches or upserts.
C2_NoFetchAfterTarget ==
  /\ [][BreaksAtTarget]_vars
  /\ [][QuietOnceLeft]_vars
  /\ []((pc # "plan" /\ initial_count >= repos_target) =>
          (fetchCalls = 0 /\ upsertCalls = 0))

C2_TargetSeenMidRun ==
  /\ pc = "done"
  /\ sliceIdx \in 2..Len(star_ranges)
  /\ fetchCalls > 0
  /\ Cardinality(DOMAIN db) >= repos_target

\* C3: the value run_crawler returns is the table's row count at that
\* moment, and it is >= target unless every slice has been harvested.
C3_ReturnsCount ==
  pc = "done" =>
    /\ final_count = Cardinality(DOMAIN db)
    /\ (final_count >= repos_target \/ sliceIdx = Len(star_ranges) + 1)

C3_ExhaustedBelowTarget ==
  /\ pc = "done"
  /\ final_count < repos_target
  /\ sliceIdx = Len(star_ranges) + 1

\* C4: unless a fetch fails fatally, the run eventually reaches Done (it
\* returns, with count < target when the slices ran out) and raises no error.
C4_ReachesDone ==
  <>(pc = "done" \/ (pc = "error" /\ error \in FetchErrors))

\* C5 as claimed: however the harvest of a slice ends, by a return or by an
\* exception, every record fetched in it has been handed to upsert_batch.
C5_NothingDroppedOnAnyExit ==
  pc \in {"range_done", "error"} => NothingDropped

\* C5 as amended: when crawl_star_range returns, every record fetched in the
\* slice has been handed to upsert_batch.
C5_NothingDroppedOnReturn ==
  pc = "range_done" => NothingDropped

C5_ReturnedWithRemainder ==
  /\ pc = "range_done"
  /\ batch_buffer # <<>>
  /\ Len(batch_buffer) < batch_size

\* C6: over a slice that returns, the batches handed to upsert_batch, put end
\* to end, are exactly the fetched records in order (each record once); no
\* batch is empty and only the last one is below the flush threshold, so a
\* remainder is flushed once.
C6_EachRecordOnce ==
  pc = "range_done" =>
    /\ Flat(batches) = fetched
    /\ \A i \in 1..Len(batches) : batches[i] # <<>>
    /\ \A i \in 1..(Len(batches) - 1) : Len(batches[i]) >= batch_size

C6_ThresholdThenRemainder ==
  /\ pc = "range_done"
  /\ Len(batches) >= 2
  /\ Len(batches[Len(batches)]) < batch_size

\* C7: no fetch is issued, and no request sent, while a page result with
\* remaining < rate_limit_buffer is still owed its wait.
C7_NoFetchWhileWaitOwed ==
  pc = "request" => quotaDebt = "none"

\* C8: the k-th sleep of a call lasts 2^k seconds, each sleep is twice the one
\* before, a sleep follows only a transient failure (5xx, network), and
\* sleeps and requests alternate.
C8_BackoffSchedule ==
  /\ \A k \in 1..Len(sleeps) : sleeps[k] = 2 ^ k
  /\ \A k \in 2..Len(sleeps) : sleeps[k] = 2 * sleeps[k - 1]
  /\ pc = "backoff" => (lastAnswer \in {"5xx", "network"} /\ Len(sleeps) = requests - 1)
  /\ pc = "request" => Len(sleeps) = requests

\* C9 as claimed: a call that returns a page after N transient failures has
\* N < max_retries; one that gives up has N >= max_retries.
C9_RetryBoundary ==
  /\ (pc = "parse" /\ allTransient) => retries < max_retries
  /\ (pc = "error" /\ error = "Max retries exceeded" /\ allTransient) =>
       retries >= max_retries

\* C9 as amended: the call returns the page after any N <= max_retries
\* transient failures; it gives up exactly at the (max_retries + 1)-th
\* failure, and the error ends the run.
C9_RetryBoundaryAmended ==
  /\ (pc \in {"request", "backoff", "parse"} /\ allTransient) =>
       retries <= max_retries
  /\ (pc = "error" /\ error = "Max retries exceeded") =>
       (retries = max_retries + 1 /\ requests = max_retries + 1)
  /\ pc = "error" => ~ENABLED Next

C9_ReturnsAfterMaxRetries ==
  pc = "parse" /\ allTransient /\ retries = max_retries

\* C10 as claimed: when a request is answered 401 the call has sent exactly
\* one request, has not slept, and the error ends it.
C10_OneRequestOn401 ==
  lastAnswer = "401" =>
    (pc = "error" /\ error = "Unauthorized" /\ requests = 1 /\ sleeps = <<>>)

\* C10 as amended: a 401 ends the call at once: the request it answers is
\* the call's last, no sleep follows it (every sleep of the call came before
\* it, one after each earlier failure), and the error ends the run; answered
\* on the first request, the call has sent one request and not slept.
C10_NoRetryAfter401 ==
  lastAnswer = "401" =>
    /\ pc = "error"
    /\ error = "Unauthorized"
    /\ requests = retries + 1
    /\ Len(sleeps) = retries
    /\ retries <= max_retries
    /\ ~ENABLED Next

C10_UnauthorizedAfterRetry ==
  lastAnswer = "401" /\ retries = 1 /\ pc = "error"

\* C11: a response that reports an "errors" entry ends the call at once: the
\* request it answers is the call's last, it is not retried and no sleep is
\* performed for it (the call's sleeps are those of its earlier retried
\* failures), and the error propagates: nothing runs after it.
C11_QueryErrorFailsAtOnce ==
  lastAnswer = "errors" =>
    /\ pc = "error"
    /\ error = "GraphQL error"
    /\ requests = retries + 1
    /\ Len(sleeps) = retries
    /\ ~ENABLED Next

C11_QueryErrorSeen ==
  lastAnswer = "errors" /\ pc = "error" /\ requests = 1 /\ sleeps = <<>>

\* C12: only 5xx answers and network errors are retried: any other failure
\* (a 4xx answer, 401 or another, or a query error) ends the call with the
\* request it answers: no sleep and no request follows it, and the failure
\* propagates; answering the call's first request, it leaves the call with one
\* request sent and no sleep.
C12_OnlyTransientRetried ==
  lastAnswer \in (Answers \ {"ok", "5xx", "network"}) =>
    /\ pc = "error"
    /\ Len(sleeps) = requests - 1
    /\ (requests = 1 => sleeps = <<>>)
    /\ ~ENABLED Next

\* the step on which a fetch raises its fatal error changes neither the table
\* nor the number of upserts
RaisingLeavesSink ==
  (error = "none" /\ error' \in FetchErrors) =>
    (db' = db /\ upsertCalls' = upsertCalls)

\* once a fetch has raised its fatal error, no step of the run follows
NothingAfterFetchError == error \in FetchErrors => FALSE

\* C13: after fetch_repositories raises a fatal error the run is over: it is
\* at its error exit, no fetch, upsert or count query follows, no later slice
\* is entered, and the table is what the flushes before the error made it.
C13_AbortsWithoutRecovery ==
  /\ [](error \in FetchErrors => pc = "error")
  /\ [][RaisingLeavesSink]_vars
  /\ [][NothingAfterFetchError]_vars

C13_AbortedAfterFlush ==
  /\ pc = "error"
  /\ error \in FetchErrors
  /\ upsertCalls > 0
  /\ Cardinality(DOMAIN db) > initial_count
  /\ sliceIdx < Len(star_ranges)

\* what an accepted upsert_batch call does to the table: the ids of the batch
\* are stored, each with the star_count the batch gives it, the other rows
\* are untouched, and the count grows by the number of ids not stored before
UpsertIsIdempotent ==
  (upsertCalls' = upsertCalls + 1 /\ error' = "none") =>
    LET batch == batches'[Len(batches')]
    IN  /\ DOMAIN db' = DOMAIN db \cup BatchIds(batch)
        /\ \A i \in DOMAIN batch : db'[batch[i].github_id] = batch[i].star_count
        /\ \A id \in DOMAIN db \ BatchIds(batch) : db'[id] = db[id]
        /\ Cardinality(DOMAIN db')
             = Cardinality(DOMAIN db) + Cardinality(BatchIds(batch) \ DOMAIN db)

\* C14: upserting a record whose id is stored leaves one row for the id, with
\* the star_count of the latest upsert; the count grows only by the ids not
\* stored before, so a batch of stored ids leaves it unchanged.
C14_UpsertIdempotentOnId == [][UpsertIsIdempotent]_vars

C14_StoredIdReupserted ==
  /\ upsertCalls > 0
  /\ \E id \in DOMAIN db : id <= initial_count /\ db[id] # 0
  /\ Cardinality(DOMAIN db) = initial_count

\* C15: from an empty table with target 5, when slice (0,0) returns {idA, idB}
\* with a next cursor and then {idC} (without a next page, or followed by an
\* empty page), the slice ends without an error having handed exactly the
\* three records to upsert_batch, the count is then 3, and at the loop head
\* the controller does not break but enters slice (1,1).
C15_ThreeRecordsThenNextSlice ==
  (corpus = "scripted" /\ pc # "plan" /\ initial_count = 0) =>
    /\ sliceIdx = 1 => pc # "error"
    /\ (pc = "range_done" /\ sliceIdx = 1) =>
         (Flat(batches) = IdRun(1, 3, 0) /\ DOMAIN db = 1..3)
    /\ (pc = "for_head" /\ sliceIdx = 2) =>
         (get_db_count = 3 /\ ENABLED EnterSlice /\ ~ENABLED TargetBreak)
    /\ (pc = "while_head" /\ sliceIdx = 2) => search_query = <<1, 1>>

C15_NextSliceEntered ==
  /\ corpus = "scripted"
  /\ initial_count = 0
  /\ pc = "while_head"
  /\ sliceIdx = 2
  /\ search_query = <<1, 1>>
  /\ get_db_count = 3
  /\ repos_target = 5

RECURSIVE Handed(_)
\* the number of records in a sequence of batches
Handed(bs) == IF bs = <<>> THEN 0 ELSE Len(Head(bs)) + Handed(Tail(bs))

\* the records of the slice fetched and not yet handed to upsert_batch
Unflushed == Len(fetched) - Handed(batches)

\* the positions of crawl_star_range's loop and of its exit before the return
InHarvest ==
  pc \in {"while_head", "request", "backoff", "parse", "page", "flush_check",
          "rate_check", "waiting", "paginate", "flush_rest"}

\* C16 as claimed: at every moment the records fetched and not yet handed to
\* the sink number at most batch_size.
C16_AtMostOneBatchUnflushed == Unflushed <= batch_size

\* C16 as amended: the unflushed records are those of the buffer; their
\* number is below batch_size at every moment except between the appending
\* of a page and the flush check that follows it, where it is at most
\* batch_size - 1 plus one page (100 records); a buffer that has reached
\* batch_size is handed over and emptied by that check.
C16_FlushBound ==
  /\ InHarvest => Unflushed = Len(batch_buffer)
  /\ pc # "flush_check" => Unflushed < batch_size
  /\ pc = "flush_check" => Unflushed <= batch_size - 1 + PageMax
  /\ pc = "rate_check" => Len(batch_buffer) < batch_size

C16_PageOverfillsBuffer ==
  pc = "flush_check" /\ Unflushed > batch_size /\ Len(batch_buffer) > batch_size

\* no step removes a row of the table
StoredStays == DOMAIN db \subseteq DOMAIN db'

\* C17: a run started on the table an earlier run left (a restart: the run
\* state is not persisted, the new process starts from the state after
\* construction) issues its first fetch for slice (0,0), the first of the
\* plan, with no cursor and an empty buffer, whatever the table holds; no step
\* of it removes a row, so every id stored before is stored after, under its
\* one key.
C17_RestartFromDurableState ==
  /\ []((pc = "while_head" /\ fetchCalls = 0) =>
          /\ sliceIdx = 1
          /\ search_query = <<0, 0>>
          /\ cursor = None
          /\ batch_buffer = <<>>
          /\ range_fetched = 0)
  /\ [](pc # "plan" => \A id \in 1..initial_count : id \in DOMAIN db)
  /\ [][StoredStays]_vars

C17_StoredRecordReharvested ==
  /\ pc = "done"
  /\ initial_count > 0
  /\ sliceIdx > 1
  /\ \E id \in DOMAIN db : id <= initial_count /\ db[id] # 0

\* C18: within a slice a fetch is issued only while fewer than 500 records
\* have been fetched since the count was last compared with the target (or
\* since the slice began): the harvester never fetches beyond 500 records
\* without consulting the stop predicate.
C18_CheckedEvery500 ==
  pc = "request" => sinceCheck < CheckEvery

\* at the loop head of a slice with a positive multiple of 500 records
\* fetched and the count at the target, the step taken leaves the loop for
\* the remaining-buffer flush and issues no fetch
StopsAtCheck ==
  (/\ pc = "while_head"
   /\ range_fetched > 0
   /\ range_fetched % CheckEvery = 0
   /\ Cardinality(DOMAIN db) >= repos_target) =>
    (pc' = "flush_rest" /\ fetchCalls' = fetchCalls)

\* from the exit of a slice on, with the count at the target, no step issues
\* a fetch or enters a slice
NoFetchOnceStopped ==
  (/\ pc \in {"flush_rest", "range_done", "for_head", "final", "done"}
   /\ Cardinality(DOMAIN db) >= repos_target) =>
    /\ fetchCalls' = fetchCalls
    /\ requests' = requests
    /\ pc' \in {"flush_rest", "range_done", "for_head", "final", "done", "error"}

\* C19: when the in-slice check finds count >= target, crawl_star_range
\* issues no further fetch; it goes to the remaining-buffer flush and, when
\* it has returned, no fetched record is left unflushed; from then on the
\* controller issues no fetch and enters no later slice.
C19_StopCheckEndsFetching ==
  /\ [][StopsAtCheck]_vars
  /\ [][NoFetchOnceStopped]_vars
  /\ []((pc = "range_done" /\ sinceCheck = 0) => Unflushed = 0)

C19_StoppedAndFlushed ==
  /\ pc = "range_done"
  /\ range_fetched = CheckEvery
  /\ sinceCheck = 0
  /\ Len(batches) >= 2
  /\ Len(batches[Len(batches)]) < batch_size
  /\ Unflushed = 0

\* the step taken on a page of zero records leaves the loop for the
\* remaining-buffer flush, whatever the page says of a next page; it leaves
\* the slice's counter and cursor as they are and issues no fetch
EmptyPageLeavesLoop ==
  (pc = "page" /\ result.repositories = <<>>) =>
    /\ pc' = "flush_rest"
    /\ range_fetched' = range_fetched
    /\ cursor' = cursor
    /\ fetchCalls' = fetchCalls

\* from the remaining-buffer flush the slice is only left: no fetch, and the
\* controller moves to the next slice
ExitIssuesNoFetch ==
  /\ pc = "flush_rest" =>
       (pc' \in {"range_done", "error"} /\ fetchCalls' = fetchCalls)
  /\ pc = "range_done" =>
       (pc' = "for_head" /\ sliceIdx' = sliceIdx + 1 /\ fetchCalls' = fetchCalls)

\* C20: after a fetch that returns zero records crawl_star_range issues no
\* further fetch for the slice, whatever has_next_page and end_cursor say,
\* and range_fetched is unchanged by that page.
C20_EmptyPageEndsSlice ==
  /\ [][EmptyPageLeavesLoop]_vars
  /\ [][ExitIssuesNoFetch]_vars

C20_EmptyPageWithNextSeen ==
  /\ pc = "range_done"
  /\ result.repositories = <<>>
  /\ result.page_info.has_next_page
  /\ result.page_info.end_cursor # None
  /\ range_fetched > 0

(***************************************************************************)
(* C21: a run that returns has printed "Target reached" if and only if the *)
(* count it returns is at least the target, so that the two ways of        *)
(* ending are told apart in the log, also when the target is met in the    *)
(* last slice of the plan.                                                 *)
(***************************************************************************)
C21_TargetLoggedIffMet ==
  pc = "done" => (targetLogged <=> final_count >= repos_target)

\* the width of a slice <<lower, upper>>
Width(slice) == slice[2] - slice[1] + 1

(***************************************************************************)
(* C22: along the plan the width of the slices never decreases, every      *)
(* slice whose lower bound is in 0..10 has width 1, and only the last two  *)
(* slices (at most) are wider than every slice before them.                *)
(***************************************************************************)
C22_WidthSteps ==
  pc = "for_head" =>
    LET n == Len(star_ranges) IN
      /\ \A i \in 1..(n - 1) :
           Width(star_ranges[i]) <= Width(star_ranges[i + 1])
      /\ \A i \in 1..n :
           star_ranges[i][1] \in 0..10 => Width(star_ranges[i]) = 1
      /\ \A i \in 1..(n - 2) :
           /\ Width(star_ranges[i]) < Width(star_ranges[n - 1])
           /\ Width(star_ranges[i]) < Width(star_ranges[n])

\* the walk stands at a slice wider than the one before it, the low slices
\* of width 1 behind it
C22_AtWidthStep ==
  /\ pc = "for_head"
  /\ sliceIdx \in 2..Len(star_ranges)
  /\ star_ranges[1] = <<0, 0>>
  /\ Width(star_ranges[sliceIdx]) > Width(star_ranges[sliceIdx - 1])
  /\ Width(star_ranges[sliceIdx - 1]) > 1

\* the star_count of the last record of the batch that carries the id
LastOccurrence(batch, id) ==
  LET last == CHOOSE i \in DOMAIN batch :
                /\ batch[i].github_id = id
                /\ \A j \in DOMAIN batch : batch[j].github_id = id => j <= i
  IN  batch[last].star_count

\* a call of upsert_batch raises nothing and leaves, for every id of the
\* batch, one row with the values of the id's last occurrence
UpsertAccepted ==
  upsertCalls' = upsertCalls + 1 =>
    LET batch == batches'[Len(batches')]
    IN  /\ error' = "none"
        /\ \A id \in BatchIds(batch) :
             id \in DOMAIN db' /\ db'[id] = LastOccurrence(batch, id)

(***************************************************************************)
(* C23: every batch the harvester hands to the sink is accepted, also one  *)
(* that holds the same id more than once: upsert_batch succeeds and leaves *)
(* one row for the id with the values of its last occurrence.              *)
(***************************************************************************)
C23_EveryBatchAccepted == [][UpsertAccepted]_vars

(***************************************************************************)
(* C24: a run that starts below the target and whose last harvested slice  *)
(* returned no more than the remote's ceiling of 1000 records returns a    *)
(* count below target + 1000: the slice was entered with the count below   *)
(* the target and adds at most the records it fetched.                     *)
(***************************************************************************)
C24_OvershootBounded ==
  /\ (pc = "range_done" /\ range_fetched <= ResultLimit)
       => /\ get_db_count < repos_target + range_fetched
          /\ get_db_count < repos_target + ResultLimit
  /\ (pc = "done" /\ initial_count < repos_target
         /\ range_fetched <= ResultLimit)
       => /\ final_count < repos_target + range_fetched
          /\ final_count < repos_target + ResultLimit

\* a run that started below the target has returned a count above it
C24_Overshot ==
  /\ pc = "done"
  /\ initial_count < repos_target
  /\ range_fetched > 0
  /\ final_count > repos_target

\* the for loop only moves to the next slice of the plan, and only when the
\* harvest of the current one has ended
PlanOrder ==
  /\ sliceIdx' \in {sliceIdx, sliceIdx + 1}
  /\ sliceIdx' # sliceIdx => (pc = "range_done" /\ pc' = "for_head")
  /\ pc # "plan" => star_ranges' = star_ranges

\* the predicate and the cursor of the harvest change only at its two loop
\* heads: entering a slice sets the slice's predicate and no cursor, turning
\* to the next page keeps the predicate and takes the end_cursor of the page
\* just handled
CursorSteps ==
  /\ (pc = "for_head" /\ pc' = "while_head")
       => (search_query' = star_ranges[sliceIdx] /\ cursor' = None)
  /\ (pc = "paginate" /\ pc' = "while_head")
       => /\ search_query' = search_query
          /\ result.page_info.has_next_page
          /\ cursor' = result.page_info.end_cursor
  /\ ~(pc \in {"for_head", "paginate"} /\ pc' = "while_head")
       => (search_query' = search_query /\ cursor' = cursor)

(***************************************************************************)
(* C25: slices are visited in plan order, each at most once; every fetch   *)
(* carries the predicate of the slice being harvested; the first fetch of  *)
(* a slice carries no cursor and every later one the end_cursor of the     *)
(* page before it in the same slice.                                       *)
(***************************************************************************)
C25_PaginationDiscipline ==
  /\ [][PlanOrder]_vars
  /\ [][CursorSteps]_vars
  /\ [](pc = "request" =>
          /\ sliceIdx \in 1..Len(star_ranges)
          /\ search_query = star_ranges[sliceIdx]
          /\ (range_fetched = 0 => cursor = None))

\* a later fetch of a slice that is not the first is in flight, with a cursor
C25_LaterFetchOfLaterSlice ==
  /\ pc = "request"
  /\ sliceIdx > 1
  /\ range_fetched > 0
  /\ cursor # None

\* a step never lowers the count; an accepted upsert_batch raises it by the
\* number of ids of the batch that were not stored, and no other step (a
\* fetch, a wait, a rejected upsert) changes the table
CountGrowsByNewIds ==
  /\ get_count(db') >= get_count(db)
  /\ IF upsertCalls' = upsertCalls + 1 /\ error' = "none"
       THEN get_count(db')
              = get_count(db)
                  + Cardinality(BatchIds(batches'[Len(batches')]) \ DOMAIN db)
       ELSE db' = db

(***************************************************************************)
(* C26: the count of the table never decreases during a run, so each value *)
(* the count query returns is at least every earlier one, and it grows by  *)
(* exactly the number of previously unstored ids of each flushed batch.    *)
(***************************************************************************)
C26_CountNeverDecreases ==
  /\ [][CountGrowsByNewIds]_vars
  /\ [](pc # "plan" => initial_count <= get_db_count)
  /\ [](pc = "done" => (initial_count <= final_count
                          /\ final_count = get_db_count))

\* a run on a non-empty table has flushed twice and returned a larger count
C26_CountGrewOverFlushes ==
  /\ pc = "done"
  /\ initial_count > 0
  /\ upsertCalls > 1
  /\ final_count > initial_count

RECURSIVE SumSeq(_)
SumSeq(s) == IF s = <<>> THEN 0 ELSE s[1] + SumSeq(Tail(s))

(***************************************************************************)
(* C27: one fetch_repositories call sends at most max_retries + 1          *)
(* requests; whenever its loop condition is evaluated it holds, so the     *)
(* call ends only by returning a page or by raising; a call that gives up  *)
(* has slept exactly max_retries times, not after its last request, for    *)
(* 2^(max_retries+1) - 2 seconds in all.                                   *)
(***************************************************************************)
C27_CallBounded ==
  /\ requests <= max_retries + 1
  /\ pc = "request" => (retries <= max_retries /\ requests = retries)
  /\ pc \in {"request", "backoff", "parse"} => ENABLED Next
  /\ (pc = "error" /\ error = "Max retries exceeded") =>
       /\ Len(sleeps) = max_retries
       /\ requests = Len(sleeps) + 1
       /\ SumSeq(sleeps) = 2 ^ (max_retries + 1) - 2

\* a call gave up after transient failures only, having slept
C27_GaveUpAfterSleeps ==
  /\ pc = "error"
  /\ error = "Max retries exceeded"
  /\ allTransient
  /\ max_retries > 0
  /\ Len(sleeps) = max_retries

\* a call without retries gave up at its first transient failure
C27_GaveUpWithoutRetry ==
  /\ pc = "error"
  /\ error = "Max retries exceeded"
  /\ allTransient
  /\ max_retries = 0

====
